---- MODULE Spec2Model ----
(***************************************************************************)
(* Hunt the Wumpus for Raspberry Pi Pico (Go version 1.0.0).               *)
(*                                                                         *)
(* The model follows the game-state engine of the program: the RNG         *)
(* wrapper irandom, world generation (createWorld / rollHazards), the      *)
(* joystick decoder (checkJoystick / getDirection), the fire-button        *)
(* debounce and the per-tick update of gameLoop with hazard and arrow      *)
(* resolution.  createWorld is split at its RNG draws: every draw is an    *)
(* input of the program, so each step runs from one draw to the next.      *)
(* One iteration of the polling loop of gameLoop is one Tick.              *)
(* The pictures on the LED matrix, the tones (but for the bat's) and the   *)
(* blinking player pixel are presentation only and the game steps leave    *)
(* them out.  The HT16K33 driver is modelled on its own, call by call,     *)
(* as are irandom, getDirection and the start of main through setup.       *)
(* The arrow code of revision 0.1.0 (src/wumpus/main.go), which differs    *)
(* from that of 1.0.0, is modelled on its own as well.                     *)
(***************************************************************************)
EXTENDS Integers, Naturals, Sequences, FiniteSets, TLC

(***************************************************************************)
(* Program constants                                                       *)
(***************************************************************************)
textWin == "    YOU BEAT THE WUMPUS!    "
textLose == "    THE WUMPUS KILLED YOU!    "
textFell == "    YOU DIED!    "
noText == ""

UPPER_LIMIT == 50000
LOWER_LIMIT == 10000
DEBOUNCE_TIME_MS == 10

PIT == "p"
BAT == "b"
WUMPUS == "w"
EMPTY == "#"

UP == 0
DOWN == 1
LEFT == 2
RIGHT == 3
NONE == 99

\* the pause at the end of every iteration of the polling loop, in ms
SLEEP_MS == 50

\* the brightness command of the HT16K33
HT16K33_CMD_BRIGHTNESS == 224

\* the default I2C address of the HT16K33
HT16K33_ADDRESS == 112

\* index range of the [8][8] board arrays
Cells == 0 .. 7

(***************************************************************************)
(* Bounds of the model                                                     *)
(***************************************************************************)
\* polls of gameLoop over the whole run
MaxTicks == 5
\* rounds (calls of createWorld) over the whole run
MaxRounds == 2
\* calls of the display driver over the whole run
MaxOps == 2

(***************************************************************************)
(* Inputs                                                                  *)
(***************************************************************************)
\* raw values delivered by the RNG for the draws of a played round
GameCornerRaws == {0, 2147483646}
GameCountRaws == {2147483644}
GameCoordRaws == {1, 2147483642}
\* raw values for the exploration of world generation on its own
WorldCornerRaws == {0, 1, 6, 2147483647}
WorldCountRaws == {3, 2147483644}
WorldCoordRaws == {9, 10, 2147483647}
\* raw values for the opening of a round: the start corner (0, 0), one hazard
\* of each kind, draws of the coordinates 0, 1 and 2
OpeningCornerRaws == {0}
OpeningCountRaws == {2147483644}
OpeningCoordRaws == {0, 1, 2147483642}
\* raw ADC readings of one joystick axis
AxisValues == {0, 30000, 65535}

VARIABLES
    pc,                  \* position of main: createWorld, batCount, pitCount, rollHazards, ready, loop
    hazards, visited, stinkLayer, soundLayer, draughtLayer,
    playerX, playerY, lastMoveDirection, isInPlay,
    isJoystickCentred, debounceButtonFlag, debounceButtonCount,
    batSqueaked,         \* local of gameLoop
    batCue,              \* the last call of checkSenses played the bat's tones
    hazardType, count, i, hazard_x, hazard_y,   \* parameters and locals of rollHazards
    pinGreen, pinRed,    \* levels of PIN_GREEN and PIN_RED
    now,                 \* the monotonic clock read by time.Now(), in ms; an iteration of
                         \* the polling loop is taken to last exactly its sleep(50)
    direction,           \* local of gameLoop: the direction decoded by the last poll, NONE if none
    fired,               \* the last poll reached "Shoot arrow"
    shownText,           \* the text handed to gameOver in this round, noText if none yet
    offCentre,           \* the last joystick reading was outside the dead-zone
    pressedAt,           \* clock value of the first poll of the current run of pressed button reads, -1 if released
    heldSinceArm,        \* the button read pressed at every poll of it since the decoder was armed
    firesInPress,        \* Fire events during the current run of pressed button reads
    gameOverCalls,       \* calls of gameOver since the last createWorld
    ticks, rounds,
    rStart, rMax, rValue, rErr,   \* one call of irandom on its own: arguments, raw number, path
    rResult,                      \* and the value it returned, -1 before the call
    rawX, rawY,          \* one call of getDirection on its own: the readings
    decoded,             \* and the direction it returned, -1 before the call
    player_x, player_y,  \* revision 0.1.0: the player's square when the arrow is fired,
    lastMoveDirection010, \* its lastMoveDirection,
    buttonAfter,         \* PIN_BUTTON.Get() as read after fireArrowAnimation,
    arrowTarget,         \* and the square the arrow is resolved against: <<>> before the shot, <<-1, -1>> for none
    led,                 \* level of machine.LED, driven by failLoop
    setupFailed,         \* setup() has returned false
    buffer, brightness,  \* fields of the HT16K33 driver
    address,             \* its address field
    txAddress,           \* the I2C address of the driver value's last transmission, -1 before the first
    cmds,                \* the single bytes the last driver call wrote to I2C, in order
    shown,               \* the 17-byte blocks the last driver call wrote to I2C, in order
    op,                  \* the last driver call and its arguments
    panicked,            \* the last driver call ended in a run-time panic
    ops                  \* driver calls made so far

worldVars == <<hazards, visited, stinkLayer, soundLayer, draughtLayer>>
playerVars == <<playerX, playerY, lastMoveDirection, isInPlay>>
decoderVars == <<isJoystickCentred, debounceButtonFlag, debounceButtonCount>>
rollVars == <<hazardType, count, i, hazard_x, hazard_y>>
pinVars == <<pinGreen, pinRed>>
pollVars == <<direction, fired, offCentre, pressedAt, heldSinceArm, firesInPress, gameOverCalls>>
randVars == <<rStart, rMax, rValue, rErr, rResult>>
readingVars == <<rawX, rawY, decoded>>
bootVars == <<led, setupFailed>>
arrowVars == <<player_x, player_y, lastMoveDirection010, buttonAfter, arrowTarget>>
driverVars == <<buffer, brightness, address, txAddress, cmds, shown, op, panicked, ops>>

vars == <<pc, worldVars, playerVars, decoderVars, batSqueaked, batCue, rollVars, pinVars,
          now, pollVars, shownText, ticks, rounds, randVars, readingVars, bootVars, driverVars, arrowVars>>

(***************************************************************************)
(* irandom: value is the raw number of the generator in use, err tells     *)
(* whether machine.GetRNG() failed and math/rand stands in.  The sum stays  *)
(* far below 2^32 at every call of the program, so it never wraps.         *)
(***************************************************************************)
irandom(start, max, value, err) ==
    IF err
    THEN (value % max) + start
    ELSE (value % max) + start

(***************************************************************************)
(* createWorld                                                             *)
(***************************************************************************)
\* startPoints with a start one row above the board
startPointsOffBoard == <<0, 0, 0, 7, 7, 8, 7, 0>>

\* startPoints with the last pair off the corner
startPointsOffCorner == <<0, 0, 0, 7, 7, 7, 3, 4>>

startPoints == <<0, 0, 0, 7, 7, 7, 7, 0>>

\* startCorner := irandom(0, 4) << 1
startCorner(value, err) == irandom(0, 4, value, err) * 2

AllCells(v) == [a \in Cells |-> [b \in Cells |-> v]]

\* the test of rollHazards on a drawn square
\* the test of rollHazards without its comparisons with the player's square
AcceptableAnyLine(h, x, y, px, py) == h[x][y] = EMPTY

Acceptable(h, x, y, px, py) == h[x][y] = EMPTY /\ x # px /\ y # py

\* Marked with the test on the upper edge of the second index lost: the
\* mark wraps round to the other side of the board
MarkedWrapUpperEdge(c, d) ==
    (IF c < 7 THEN {<<c + 1, d>>} ELSE {}) \cup
    (IF c > 0 THEN {<<c - 1, d>>} ELSE {}) \cup
    {<<c, (d + 1) % 8>>} \cup
    (IF d > 0 THEN {<<c, d - 1>>} ELSE {})

\* the squares createWorld marks around a hazard at (c, d): one step along
\* either axis, as far as the board reaches
Marked(c, d) ==
    (IF c < 7 THEN {<<c + 1, d>>} ELSE {}) \cup
    (IF c > 0 THEN {<<c - 1, d>>} ELSE {}) \cup
    (IF d < 7 THEN {<<c, d + 1>>} ELSE {}) \cup
    (IF d > 0 THEN {<<c, d - 1>>} ELSE {})

\* SenseScan flipping the marked squares of the layer instead of setting them
SenseScanFlip(layer, kind, h) ==
    LET found == {sq \in Cells \X Cells : h[sq[1]][sq[2]] = kind}
        marks == UNION {Marked(sq[1], sq[2]) : sq \in found}
    IN  [a \in Cells |-> [b \in Cells |-> layer[a][b] # (<<a, b>> \in marks)]]

\* the sense scan of createWorld for one kind of hazard: every square
\* holding it marks its squares in the layer, nothing is ever cleared
SenseScan(layer, kind, h) ==
    LET found == {sq \in Cells \X Cells : h[sq[1]][sq[2]] = kind}
        marks == UNION {Marked(sq[1], sq[2]) : sq \in found}
    IN  [a \in Cells |-> [b \in Cells |-> layer[a][b] \/ <<a, b>> \in marks]]

\* createWorld up to the draw of the number of bats
CreateWorld(raws) ==
    /\ pc = "createWorld"
    /\ rounds < MaxRounds
    /\ \E value \in raws, err \in BOOLEAN :
         LET c == startCorner(value, err) IN
         /\ playerX' = startPoints[c + 1]
         /\ playerY' = startPoints[c + 2]
         /\ lastMoveDirection' = IF startPoints[c + 2] = 0 THEN UP ELSE DOWN
    /\ hazards' = AllCells(EMPTY)
    /\ visited' = AllCells(FALSE)
    /\ stinkLayer' = AllCells(FALSE)
    /\ draughtLayer' = AllCells(FALSE)
    /\ soundLayer' = AllCells(FALSE)
    /\ pc' = "batCount"
    /\ rounds' = rounds + 1
    /\ shownText' = noText
    /\ direction' = NONE
    /\ fired' = FALSE
    /\ batCue' = FALSE
    /\ gameOverCalls' = 0
    /\ UNCHANGED <<isInPlay, decoderVars, batSqueaked, rollVars, pinVars, now,
                   offCentre, pressedAt, heldSinceArm, firesInPress, ticks, randVars, readingVars, bootVars, driverVars, arrowVars>>

\* rollHazards(BAT, irandom(1, 4)) and rollHazards(PIT, irandom(1, 4)):
\* the draw of the count and the entry into rollHazards
RollCount(raws) ==
    /\ pc \in {"batCount", "pitCount"}
    /\ \E value \in raws, err \in BOOLEAN :
         count' = irandom(1, 4, value, err)
    /\ hazardType' = IF pc = "batCount" THEN BAT ELSE PIT
    /\ i' = 0
    /\ hazard_x' = 0
    /\ hazard_y' = 0
    /\ pc' = "rollHazards"
    /\ UNCHANGED <<worldVars, playerVars, decoderVars, batSqueaked, batCue, pinVars, now,
                   pollVars, shownText, ticks, rounds, randVars, readingVars, bootVars, driverVars, arrowVars>>

\* one draw of a square in rollHazards; an accepted draw places the hazard
\* and runs on to the next draw of the program
Roll(raws) ==
    /\ pc = "rollHazards"
    /\ i < count
    /\ \E vx \in raws, vy \in raws, errx \in BOOLEAN, erry \in BOOLEAN :
         LET x == irandom(0, 8, vx, errx)
             y == irandom(0, 8, vy, erry)
             h == [hazards EXCEPT ![x][y] = hazardType]
         IN
         /\ hazard_x' = x
         /\ hazard_y' = y
         /\ IF Acceptable(hazards, x, y, playerX, playerY)
            THEN /\ hazards' = h
                 /\ IF i + 1 < count
                    THEN /\ i' = i + 1
                         /\ UNCHANGED <<pc, hazardType, count, stinkLayer, draughtLayer, soundLayer>>
                    ELSE IF hazardType = BAT
                    THEN /\ pc' = "pitCount"
                         /\ i' = i + 1
                         /\ UNCHANGED <<hazardType, count, stinkLayer, draughtLayer, soundLayer>>
                    ELSE IF hazardType = PIT
                    THEN /\ hazardType' = WUMPUS
                         /\ count' = 1
                         /\ i' = 0
                         /\ UNCHANGED <<pc, stinkLayer, draughtLayer, soundLayer>>
                    ELSE /\ i' = i + 1
                         /\ stinkLayer' = SenseScan(stinkLayer, WUMPUS, h)
                         /\ draughtLayer' = SenseScan(draughtLayer, PIT, h)
                         /\ soundLayer' = SenseScan(soundLayer, BAT, h)
                         /\ pc' = "ready"
                         /\ UNCHANGED <<hazardType, count>>
            ELSE UNCHANGED <<pc, hazards, hazardType, count, i, stinkLayer, draughtLayer, soundLayer>>
    /\ UNCHANGED <<visited, playerVars, decoderVars, batSqueaked, batCue, pinVars, now,
                   pollVars, shownText, ticks, rounds, randVars, readingVars, bootVars, driverVars, arrowVars>>

(***************************************************************************)
(* The joystick decoder                                                    *)
(***************************************************************************)
\* the reading lies outside the dead-zone (the test of checkJoystick)
OffCentre(x, y) == x > UPPER_LIMIT \/ x < LOWER_LIMIT \/ y > UPPER_LIMIT \/ y < LOWER_LIMIT

\* checkJoystick without the latch: every off-centre reading is used
checkJoystickNoLatch(x, y, centred) ==
    IF OffCentre(x, y)
    THEN [ret |-> TRUE, centred |-> FALSE]
    ELSE [ret |-> FALSE, centred |-> TRUE]

\* checkJoystick: ret is the value returned, centred the new isJoystickCentred
checkJoystick(x, y, centred) ==
    IF OffCentre(x, y)
    THEN IF centred
         THEN [ret |-> TRUE, centred |-> FALSE]
         ELSE [ret |-> FALSE, centred |-> centred]
    ELSE [ret |-> FALSE, centred |-> TRUE]

\* getDirection without its third block, for readings with neither axis
\* strictly inside the limits
getDirectionTwoBlocks(x, y) ==
    LET ydead == y > LOWER_LIMIT /\ y < UPPER_LIMIT
        xdead == x > LOWER_LIMIT /\ x < UPPER_LIMIT
    IN  IF ydead /\ ~xdead /\ x < LOWER_LIMIT THEN RIGHT
        ELSE IF ydead /\ ~xdead /\ x > UPPER_LIMIT THEN LEFT
        ELSE IF xdead /\ ~ydead /\ y < LOWER_LIMIT THEN DOWN
        ELSE IF xdead /\ ~ydead /\ y > UPPER_LIMIT THEN UP
        ELSE NONE

\* getDirection with the vertical axis tested first when both axes are off
\* their dead-zone
getDirectionVerticalFirst(x, y) ==
    LET ydead == y > LOWER_LIMIT /\ y < UPPER_LIMIT
        xdead == x > LOWER_LIMIT /\ x < UPPER_LIMIT
    IN  IF ydead /\ ~xdead /\ x < LOWER_LIMIT THEN RIGHT
        ELSE IF ydead /\ ~xdead /\ x > UPPER_LIMIT THEN LEFT
        ELSE IF xdead /\ ~ydead /\ y < LOWER_LIMIT THEN DOWN
        ELSE IF xdead /\ ~ydead /\ y > UPPER_LIMIT THEN UP
        ELSE IF ~xdead /\ ~ydead /\ y < LOWER_LIMIT THEN DOWN
        ELSE IF ~xdead /\ ~ydead /\ y > UPPER_LIMIT THEN UP
        ELSE IF ~xdead /\ ~ydead /\ x < LOWER_LIMIT THEN RIGHT
        ELSE IF ~xdead /\ ~ydead /\ x > UPPER_LIMIT THEN LEFT
        ELSE NONE

getDirection(x, y) ==
    LET ydead == y > LOWER_LIMIT /\ y < UPPER_LIMIT
        xdead == x > LOWER_LIMIT /\ x < UPPER_LIMIT
    IN  IF ydead /\ ~xdead /\ x < LOWER_LIMIT THEN RIGHT
        ELSE IF ydead /\ ~xdead /\ x > UPPER_LIMIT THEN LEFT
        ELSE IF xdead /\ ~ydead /\ y < LOWER_LIMIT THEN DOWN
        ELSE IF xdead /\ ~ydead /\ y > UPPER_LIMIT THEN UP
        ELSE IF ~xdead /\ ~ydead /\ x < LOWER_LIMIT THEN RIGHT
        ELSE IF ~xdead /\ ~ydead /\ x > UPPER_LIMIT THEN LEFT
        ELSE IF ~xdead /\ ~ydead /\ y < LOWER_LIMIT THEN DOWN
        ELSE IF ~xdead /\ ~ydead /\ y > UPPER_LIMIT THEN UP
        ELSE NONE

(***************************************************************************)
(* gameLoop                                                                *)
(***************************************************************************)
\* the visited grid keeping only the square left last
MarkVisitedLastOnly(v, px, py) == [AllCells(FALSE) EXCEPT ![px][py] = TRUE]

\* visited[playerX][playerY] = true, before the move
MarkVisited(v, px, py) == [v EXCEPT ![px][py] = TRUE]

\* MovePlayer without the edge tests: the unsigned coordinate is reduced to
\* the index range
MovePlayerNoEdge(dir, px, py) ==
    IF dir = UP THEN <<px, (py + 1) % 8>>
    ELSE IF dir = DOWN THEN <<px, (py + 7) % 8>>
    ELSE IF dir = LEFT THEN <<(px + 7) % 8, py>>
    ELSE IF dir = RIGHT THEN <<(px + 1) % 8, py>>
    ELSE <<px, py>>

\* the switch on direction of gameLoop: the player's square after the move
MovePlayer(dir, px, py) ==
    IF dir = UP /\ py < 7 THEN <<px, py + 1>>
    ELSE IF dir = DOWN /\ py > 0 THEN <<px, py - 1>>
    ELSE IF dir = LEFT /\ px > 0 THEN <<px - 1, py>>
    ELSE IF dir = RIGHT /\ px < 7 THEN <<px + 1, py>>
    ELSE <<px, py>>

\* ArrowResult looking at the player's own square instead of the next one
ArrowResultOwnSquare(h, px, py, facing) ==
    IF (facing = UP /\ py < 7) \/ (facing = DOWN /\ py > 0)
       \/ (facing = RIGHT /\ px < 7) \/ (facing = LEFT /\ px > 0)
    THEN (IF h[px][py] = WUMPUS THEN "hit" ELSE "miss")
    ELSE "none"

\* ArrowResult with a shot over the edge of the board counted as a miss
ArrowResultEdgeMiss(h, px, py, facing) ==
    IF facing = UP /\ py < 7
    THEN (IF h[px][py + 1] = WUMPUS THEN "hit" ELSE "miss")
    ELSE IF facing = DOWN /\ py > 0
    THEN (IF h[px][py - 1] = WUMPUS THEN "hit" ELSE "miss")
    ELSE IF facing = RIGHT /\ px < 7
    THEN (IF h[px + 1][py] = WUMPUS THEN "hit" ELSE "miss")
    ELSE IF facing = LEFT /\ px > 0
    THEN (IF h[px - 1][py] = WUMPUS THEN "hit" ELSE "miss")
    ELSE "miss"

\* ArrowResult with the arrow always flying up the board, whatever the facing
ArrowResultAlwaysUp(h, px, py, facing) ==
    IF py < 7
    THEN (IF h[px][py + 1] = WUMPUS THEN "hit" ELSE "miss")
    ELSE "none"

\* the switch on lastMoveDirection after fireArrowAnimation:
\* "hit" calls deadWumpusAnimation, "miss" arrowMissAnimation, "none" neither
ArrowResult(h, px, py, facing) ==
    IF facing = UP /\ py < 7
    THEN (IF h[px][py + 1] = WUMPUS THEN "hit" ELSE "miss")
    ELSE IF facing = DOWN /\ py > 0
    THEN (IF h[px][py - 1] = WUMPUS THEN "hit" ELSE "miss")
    ELSE IF facing = RIGHT /\ px < 7
    THEN (IF h[px + 1][py] = WUMPUS THEN "hit" ELSE "miss")
    ELSE IF facing = LEFT /\ px > 0
    THEN (IF h[px - 1][py] = WUMPUS THEN "hit" ELSE "miss")
    ELSE "none"

\* DropSquares without the test of the drop loop: any drawn square ends it
DropSquaresAnywhere(h, raws) ==
    {<<irandom(0, 8, vx, ex), irandom(0, 8, vy, ey)>> :
        vx \in raws, vy \in raws, ex \in BOOLEAN, ey \in BOOLEAN}

\* the squares on which the drop loop of checkHazards can end
DropSquares(h, raws) ==
    {sq \in {<<irandom(0, 8, vx, ex), irandom(0, 8, vy, ey)>> :
                 vx \in raws, vy \in raws, ex \in BOOLEAN, ey \in BOOLEAN} :
        h[sq[1]][sq[2]] = EMPTY}

\* the board after a bat's drop with the bat travelling along with the player
BoardAfterDropBatMoves(h, bat, drop) ==
    [a \in Cells |-> [b \in Cells |->
        IF <<a, b>> = bat THEN EMPTY
        ELSE IF <<a, b>> = drop THEN BAT
        ELSE h[a][b]]]

\* the board after the bat branch of checkHazards, which has carried the
\* player from the square bat to the square drop: the branch assigns
\* playerX and playerY and nothing of the board
BoardAfterDrop(h, bat, drop) == h

\* HazardText with a pit that lets the player walk on
HazardTextPitHarmless(h, sq) ==
    IF h[sq[1]][sq[2]] = WUMPUS THEN textLose
    ELSE noText

\* the text checkHazards hands to gameOver (through gameLost) on the square
HazardText(h, sq) ==
    IF h[sq[1]][sq[2]] = PIT THEN textFell
    ELSE IF h[sq[1]][sq[2]] = WUMPUS THEN textLose
    ELSE noText

\* ArrowText with a miss that only plays the animation
ArrowTextMissUnpunished(result) ==
    IF result = "hit" THEN textWin
    ELSE noText

\* the text the arrow resolution hands to gameOver
ArrowText(result) ==
    IF result = "hit" THEN textWin
    ELSE IF result = "miss" THEN textLose
    ELSE noText

\* checkSensesPins with the two layers taken for each other
checkSensesPinsSwapped(sq) == <<draughtLayer[sq[1]][sq[2]], stinkLayer[sq[1]][sq[2]]>>

\* the levels checkSenses sets on <<PIN_GREEN, PIN_RED>> with the player on sq
checkSensesPins(sq) == <<stinkLayer[sq[1]][sq[2]], draughtLayer[sq[1]][sq[2]]>>

\* checkSensesCue without the test of batSqueakedAlready
checkSensesCueEveryCall(sound, batSqueakedAlready) == sound

\* checkSenses plays the bat's tones: the square sounds and the tones have
\* not been played already
checkSensesCue(sound, batSqueakedAlready) == sound /\ ~batSqueakedAlready

\* clearPins leaving both pins as they are
clearPinsKept == <<pinGreen, pinRed>>

\* the levels of <<PIN_GREEN, PIN_RED>> after clearPins
clearPins == <<FALSE, FALSE>>

\* the debounce test of the fire button
DebounceOver(t, armedAt) == (t - armedAt) > DEBOUNCE_TIME_MS

\* main between createWorld and the first poll: drawWorld, checkSenses(false)
\* and the run variables of gameLoop
StartRound ==
    /\ pc = "ready"
    /\ pinGreen' = checkSensesPins(<<playerX, playerY>>)[1]
    /\ pinRed' = checkSensesPins(<<playerX, playerY>>)[2]
    /\ isInPlay' = TRUE
    /\ debounceButtonFlag' = FALSE
    /\ batSqueaked' = FALSE
    /\ batCue' = checkSensesCue(soundLayer[playerX][playerY], FALSE)
    /\ pc' = "loop"
    /\ UNCHANGED <<worldVars, playerX, playerY, lastMoveDirection, isJoystickCentred,
                   debounceButtonCount, rollVars, now, pollVars, shownText, ticks, rounds, randVars, readingVars, bootVars, driverVars, arrowVars>>

\* the button read in every iteration, whatever checkJoystick returned
firePressedAnyBranch(ret, button) == button

\* `if checkJoystick(x, y) {...} else { if PIN_BUTTON.Get() {...} }`: the
\* button is read, and counts as pressed, only in the else branch
firePressed(ret, button) == ~ret /\ button

\* the polling loop going round again whatever the iteration decided
afterIterationNoBreak(over) == "loop"

\* `if isDead || !isInPlay { break }`: gameLoop returns to main, whose next
\* call that changes the game is createWorld; otherwise the loop goes round
afterIteration(over) == IF over THEN "createWorld" ELSE "loop"

\* one iteration of the polling loop of gameLoop
Tick(raws) ==
    /\ pc = "loop"
    /\ ticks < MaxTicks
    /\ \E x \in AxisValues, y \in AxisValues, button \in BOOLEAN :
         LET cj == checkJoystick(x, y, isJoystickCentred)
             dir == IF cj.ret THEN getDirection(x, y) ELSE NONE
             pos == IF cj.ret THEN MovePlayer(dir, playerX, playerY) ELSE <<playerX, playerY>>
             changed == pos # <<playerX, playerY>>
             onBat == cj.ret /\ hazards[pos[1]][pos[2]] = BAT
             pressed == firePressed(cj.ret, button)
             arm == pressed /\ ~debounceButtonFlag
             shoot == pressed /\ debounceButtonFlag /\ DebounceOver(now, debounceButtonCount)
             text == IF cj.ret THEN HazardText(hazards, pos)
                     ELSE IF shoot
                     THEN ArrowText(ArrowResult(hazards, playerX, playerY, lastMoveDirection))
                     ELSE noText
             over == text # noText
             squeak0 == IF changed THEN FALSE ELSE batSqueaked
         IN
         \E dest \in (IF onBat THEN DropSquares(hazards, raws) ELSE {pos}) :
            /\ isJoystickCentred' = cj.centred
            /\ visited' = IF cj.ret THEN MarkVisited(visited, playerX, playerY) ELSE visited
            /\ hazards' = IF onBat THEN BoardAfterDrop(hazards, pos, dest) ELSE hazards
            /\ playerX' = dest[1]
            /\ playerY' = dest[2]
            /\ lastMoveDirection' = IF changed THEN dir ELSE lastMoveDirection
            /\ debounceButtonFlag' = IF arm THEN TRUE ELSE IF shoot THEN FALSE ELSE debounceButtonFlag
            /\ debounceButtonCount' = IF arm THEN now ELSE debounceButtonCount
            /\ isInPlay' = IF over THEN FALSE ELSE isInPlay
            /\ shownText' = text
            /\ pinGreen' = IF over THEN clearPins[1] ELSE checkSensesPins(dest)[1]
            /\ pinRed' = IF over THEN clearPins[2] ELSE checkSensesPins(dest)[2]
            /\ batSqueaked' = IF over THEN squeak0 ELSE (squeak0 \/ soundLayer[dest[1]][dest[2]])
            /\ batCue' = (~over /\ checkSensesCue(soundLayer[dest[1]][dest[2]], squeak0))
            /\ pc' = afterIteration(over)
            /\ now' = now + SLEEP_MS
            /\ direction' = dir
            /\ fired' = shoot
            /\ offCentre' = OffCentre(x, y)
            /\ pressedAt' = IF cj.ret THEN pressedAt
                            ELSE IF ~button THEN -1
                            ELSE IF pressedAt = -1 THEN now ELSE pressedAt
            /\ heldSinceArm' = IF arm THEN TRUE
                               ELSE IF ~cj.ret /\ ~button THEN FALSE
                               ELSE heldSinceArm
            /\ firesInPress' = IF cj.ret THEN firesInPress
                               ELSE IF ~button THEN 0
                               ELSE (IF pressedAt = -1 THEN 0 ELSE firesInPress)
                                    + (IF shoot THEN 1 ELSE 0)
            /\ gameOverCalls' = gameOverCalls + (IF over THEN 1 ELSE 0)
            /\ ticks' = ticks + 1
    /\ UNCHANGED <<stinkLayer, soundLayer, draughtLayer, rollVars, rounds, randVars, readingVars, bootVars, driverVars, arrowVars>>

(***************************************************************************)
(* The HT16K33 display driver                                              *)
(***************************************************************************)
\* bit k of the byte n
Bit(n, k) == (n \div (2 ^ k)) % 2

\* a | b on bytes
ByteOr(a, b) ==
    LET or(k) == IF Bit(a, k) = 1 \/ Bit(b, k) = 1 THEN 2 ^ k ELSE 0
    IN  or(0) + or(1) + or(2) + or(3) + or(4) + or(5) + or(6) + or(7)

\* a & b on bytes
ByteAnd(a, b) ==
    LET and(k) == IF Bit(a, k) = 1 /\ Bit(b, k) = 1 THEN 2 ^ k ELSE 0
    IN  and(0) + and(1) + and(2) + and(3) + and(4) + and(5) + and(6) + and(7)

\* ^a on a byte
ByteNot(a) == 255 - a

\* the address New stores: `if address < 8 || address > 0xF0 { address = HT16K33_ADDRESS }`
NewAddress(a) == IF a < 8 \/ a > 240 THEN HT16K33_ADDRESS ELSE a

\* the address i2cWriteByte and i2cWriteBlock hand to bus.Tx for a driver
\* value whose address field is addr: uint16(HT16K33_ADDRESS)
TxAddress(addr) == HT16K33_ADDRESS

\* SetBrightnessLevel without the test against 15
SetBrightnessLevelUnclamped(b) == b

\* the level SetBrightness keeps of its argument
SetBrightnessLevel(b) == IF b > 15 THEN 15 ELSE b

\* the levels SetBrightness is called with: the fixed levels of the program,
\* the random levels of gameWon, and levels beyond the byte
BrightnessRaws == {0, 6, 13, 14, 2147483647}
BrightnessLevels ==
    {0, 2, 8, 12, 15, 16, 255, 256, 65535} \cup
    {irandom(call[1], call[2], value, err) :
        call \in {<<1, 15>>, <<7, 14>>, <<1, 8>>}, value \in BrightnessRaws, err \in BOOLEAN}

SetBrightness ==
    /\ ops < MaxOps
    /\ \E b \in BrightnessLevels :
         /\ brightness' = SetBrightnessLevel(b)
         /\ cmds' = <<ByteOr(HT16K33_CMD_BRIGHTNESS, SetBrightnessLevel(b) % 256)>>
         /\ op' = <<"SetBrightness", b>>
    /\ shown' = <<>>
    /\ txAddress' = TxAddress(address)
    /\ panicked' = FALSE
    /\ ops' = ops + 1
    /\ UNCHANGED <<pc, worldVars, playerVars, decoderVars, batSqueaked, batCue, rollVars, pinVars,
                   now, pollVars, shownText, ticks, rounds, randVars, readingVars, bootVars,
                   buffer, address, arrowVars>>

\* the byte Draw sends for the column byte a: (a >> 1) + ((a << 7) & 0xFF)
DrawByte(a) == (a \div 2) + ((a * 128) % 256)

\* the 17 bytes Draw writes for the frame buffer buf: byte 0 and the even
\* bytes stay 0, byte 2c + 1 carries column c
DrawBlock(buf) ==
    [n \in 1 .. 17 |-> IF (n - 1) % 2 = 1 THEN DrawByte(buf[(n - 2) \div 2]) ELSE 0]

\* sprites handed to the driver: [8]byte arrays
SpriteDiagonal == [col \in Cells |-> 2 ^ col]
SpriteFrame == [col \in Cells |-> IF col \in {0, 7} THEN 255 ELSE 129]
Sprites == {SpriteDiagonal, SpriteFrame}

\* the part of the driver's state its calls leave alone unless they say so
GameFrame ==
    UNCHANGED <<pc, worldVars, playerVars, decoderVars, batSqueaked, batCue, rollVars, pinVars,
                now, pollVars, shownText, ticks, rounds, randVars, readingVars, bootVars, arrowVars>>

\* the methods of the driver leave the game and the address field alone
DriverFrame == GameFrame /\ UNCHANGED address

Draw ==
    /\ ops < MaxOps
    /\ shown' = <<DrawBlock(buffer)>>
    /\ txAddress' = TxAddress(address)
    /\ cmds' = <<>>
    /\ op' = <<"Draw">>
    /\ panicked' = FALSE
    /\ ops' = ops + 1
    /\ UNCHANGED <<buffer, brightness>>
    /\ DriverFrame

Clear ==
    /\ ops < MaxOps
    /\ buffer' = [col \in Cells |-> 0]
    /\ shown' = <<>>
    /\ cmds' = <<>>
    /\ op' = <<"Clear">>
    /\ panicked' = FALSE
    /\ ops' = ops + 1
    /\ UNCHANGED <<brightness, txAddress>>
    /\ DriverFrame

\* DrawSprite: the sprite is copied into the frame buffer and Draw() called
DrawSprite ==
    /\ ops < MaxOps
    /\ \E sprite \in Sprites :
         /\ buffer' = sprite
         /\ shown' = <<DrawBlock(sprite)>>
         /\ op' = <<"DrawSprite", sprite>>
    /\ txAddress' = TxAddress(address)
    /\ cmds' = <<>>
    /\ panicked' = FALSE
    /\ ops' = ops + 1
    /\ UNCHANGED brightness
    /\ DriverFrame

\* PlotColumn writing the column anew instead of changing one bit of it
PlotColumnOverwrite(col, y, isSet) == IF isSet THEN 2 ^ y ELSE 0

\* the column byte Plot stores: col |= (1 << y) or col &= ^(1 << y)
PlotColumn(col, y, isSet) ==
    IF isSet THEN ByteOr(col, 2 ^ y)
    ELSE ByteAnd(col, ByteNot(2 ^ y))

\* the columns Plot is called on in the model
PlotColumns == {0, 7}

Plot ==
    /\ ops < MaxOps
    /\ \E x \in PlotColumns, y \in Cells, isSet \in BOOLEAN :
         /\ buffer' = [buffer EXCEPT ![x] = PlotColumn(buffer[x], y, isSet)]
         /\ op' = <<"Plot", x, y, isSet>>
    /\ shown' = <<>>
    /\ cmds' = <<>>
    /\ panicked' = FALSE
    /\ ops' = ops + 1
    /\ UNCHANGED <<brightness, txAddress>>
    /\ DriverFrame

\* the frame AnimateSequence copies from sequence[cnt : cnt + 8]
\* (the model's sequences are indexed from 1)
FrameAt(sequence, cnt) == [col \in Cells |-> sequence[cnt + col + 1]]

\* the loop of AnimateSequence from offset cnt on, with the frames drawn so
\* far in acc: the frames it draws in all, and whether slicing the sequence
\* beyond its end stopped it with a panic (the slice's capacity is taken to
\* be its length, as for the slices the program builds)
RECURSIVE AnimateLoop(_, _, _, _)
AnimateLoop(sequence, frameCount, cnt, acc) ==
    IF cnt + 8 > Len(sequence)
    THEN [frames |-> acc, panic |-> TRUE]
    ELSE IF cnt + 8 >= frameCount * 8
    THEN [frames |-> Append(acc, FrameAt(sequence, cnt)), panic |-> FALSE]
    ELSE AnimateLoop(sequence, frameCount, cnt + 8, Append(acc, FrameAt(sequence, cnt)))

\* the byte sequences and frame counts AnimateSequence is called with
AnimationBytes(len) == [n \in 1 .. len |-> (n * 37) % 256]
AnimationLengths == {0, 8, 16, 20}
FrameCounts == 0 .. 2

AnimateSequence ==
    /\ ops < MaxOps
    /\ \E len \in AnimationLengths, frameCount \in FrameCounts :
         LET sequence == AnimationBytes(len)
             run == AnimateLoop(sequence, frameCount, 0, <<>>)
         IN  /\ buffer' = IF run.frames = <<>> THEN buffer ELSE run.frames[Len(run.frames)]
             /\ shown' = [k \in 1 .. Len(run.frames) |-> DrawBlock(run.frames[k])]
             /\ panicked' = run.panic
             /\ txAddress' = IF run.frames = <<>> THEN txAddress ELSE TxAddress(address)
             /\ op' = <<"AnimateSequence", sequence, frameCount>>
    /\ cmds' = <<>>
    /\ ops' = ops + 1
    /\ UNCHANGED brightness
    /\ DriverFrame

(***************************************************************************)
(* main before the first round: setup and failLoop                         *)
(***************************************************************************)
\* the value setup() returns: each of the three Configure calls may fail
setup(i2cErr, xErr, yErr) ==
    IF i2cErr THEN FALSE
    ELSE IF xErr THEN FALSE
    ELSE IF yErr THEN FALSE
    ELSE TRUE

\* main going on to the game whatever setup() returned
AfterSetupPlayOn(ok) == "createWorld"

\* `if !setup() { failLoop() }`: where main goes on after setup()
AfterSetup(ok) == IF ok THEN "createWorld" ELSE "failLoop"

Setup ==
    /\ pc = "setup"
    /\ \E i2cErr \in BOOLEAN, xErr \in BOOLEAN, yErr \in BOOLEAN :
         /\ setupFailed' = ~setup(i2cErr, xErr, yErr)
         /\ pc' = AfterSetup(setup(i2cErr, xErr, yErr))
    /\ UNCHANGED <<worldVars, playerVars, decoderVars, batSqueaked, batCue, rollVars, pinVars,
                   now, pollVars, shownText, ticks, rounds, randVars, readingVars, led, driverVars, arrowVars>>

\* one turn of the loop of failLoop, which has no exit
FailLoop ==
    /\ pc = "failLoop"
    /\ led' = ~led
    /\ UNCHANGED <<pc, worldVars, playerVars, decoderVars, batSqueaked, batCue, rollVars, pinVars,
                   now, pollVars, shownText, ticks, rounds, randVars, readingVars, setupFailed,
                   driverVars, arrowVars>>

(***************************************************************************)
(* Specifications                                                          *)
(***************************************************************************)
\* the zero value of a byte of the board before the first createWorld
NUL == "nul"

\* the globals of the program, the pins and the driver once setup() has run
Globals ==
    /\ hazards = AllCells(NUL)
    /\ visited = AllCells(FALSE)
    /\ stinkLayer = AllCells(FALSE)
    /\ soundLayer = AllCells(FALSE)
    /\ draughtLayer = AllCells(FALSE)
    /\ playerX = 0
    /\ playerY = 0
    /\ lastMoveDirection = 0
    /\ isInPlay = FALSE
    /\ isJoystickCentred = TRUE
    /\ debounceButtonFlag = FALSE
    /\ debounceButtonCount = 0
    /\ batSqueaked = FALSE
    /\ batCue = FALSE
    /\ hazardType = NUL
    /\ count = 0
    /\ i = 0
    /\ hazard_x = 0
    /\ hazard_y = 0
    /\ pinGreen = FALSE
    /\ pinRed = FALSE
    /\ now = 0
    /\ direction = NONE
    /\ fired = FALSE
    /\ shownText = noText
    /\ offCentre = FALSE
    /\ pressedAt = -1
    /\ heldSinceArm = FALSE
    /\ firesInPress = 0
    /\ gameOverCalls = 0
    /\ ticks = 0
    /\ rounds = 0
    /\ led = FALSE
    /\ setupFailed = FALSE
    /\ buffer = [col \in Cells |-> 0]
    /\ brightness = 8
    /\ address = HT16K33_ADDRESS
    /\ txAddress = HT16K33_ADDRESS
    /\ cmds = <<>>
    /\ shown = <<>>
    /\ op = <<"Init">>
    /\ panicked = FALSE
    /\ ops = 0

\* the program after setup() has returned true
Start ==
    /\ pc = "createWorld"
    /\ Globals

\* no call of getDirection on its own
NoReading ==
    /\ rawX = 0
    /\ rawY = 0
    /\ decoded = -1

\* no shot of revision 0.1.0
NoShot010 ==
    /\ player_x = 0
    /\ player_y = 0
    /\ lastMoveDirection010 = 0
    /\ buttonAfter = FALSE
    /\ arrowTarget = <<>>

Init ==
    /\ Start
    /\ rStart = 0
    /\ rMax = 1
    /\ rValue = 0
    /\ rErr = FALSE
    /\ rResult = -1
    /\ NoReading
    /\ NoShot010

GameCreateWorld == CreateWorld(GameCornerRaws)
GameRollCount == RollCount(GameCountRaws)
GameRoll == Roll(GameCoordRaws)
GameTick == Tick(GameCoordRaws)

Next == GameCreateWorld \/ GameRollCount \/ GameRoll \/ StartRound \/ GameTick

Spec == Init /\ [][Next]_vars

WorldCreateWorld == CreateWorld(WorldCornerRaws)
WorldRollCount == RollCount(WorldCountRaws)
WorldRoll == Roll(WorldCoordRaws)

WorldNext == WorldCreateWorld \/ WorldRollCount \/ WorldRoll \/ StartRound

SpecWorld == Init /\ [][WorldNext]_vars

(***************************************************************************)
(* rounds from the corner (0, 0) whose draws fall on the start row and     *)
(* column as well                                                          *)
(***************************************************************************)
OpeningCreateWorld == CreateWorld(OpeningCornerRaws)
OpeningRollCount == RollCount(OpeningCountRaws)
OpeningRoll == Roll(OpeningCoordRaws)

OpeningNext == OpeningCreateWorld \/ OpeningRollCount \/ OpeningRoll \/ StartRound \/ GameTick

SpecOpening == Init /\ [][OpeningNext]_vars

(***************************************************************************)
(* main from its first line: setup, then failLoop or the first world       *)
(***************************************************************************)
InitBoot ==
    /\ pc = "setup"
    /\ Globals
    /\ rStart = 0
    /\ rMax = 1
    /\ rValue = 0
    /\ rErr = FALSE
    /\ rResult = -1
    /\ NoReading
    /\ NoShot010

BootNext == Setup \/ FailLoop \/ GameCreateWorld \/ GameRollCount \/ GameRoll \/ StartRound

SpecBoot == InitBoot /\ [][BootNext]_vars

(***************************************************************************)
(* the display driver on its own, from the state matrix.Init() leaves      *)
(***************************************************************************)
DriverNext == SetBrightness \/ Draw \/ Clear \/ DrawSprite \/ Plot \/ AnimateSequence

SpecDriver == Init /\ [][DriverNext]_vars

(***************************************************************************)
(* driver values made by New with any address argument, and their calls    *)
(***************************************************************************)
\* the address arguments New is called with: both sides of both limits
AddressArgs == {7, 8, 113, 240, 241}

\* New: a driver value with the address it keeps of its argument,
\* brightness 15 and an empty frame buffer, which has transmitted nothing
New ==
    /\ ops < MaxOps
    /\ \E a \in AddressArgs :
         /\ address' = NewAddress(a)
         /\ op' = <<"New", a>>
    /\ brightness' = 15
    /\ buffer' = [col \in Cells |-> 0]
    /\ txAddress' = -1
    /\ shown' = <<>>
    /\ cmds' = <<>>
    /\ panicked' = FALSE
    /\ ops' = ops + 1
    /\ GameFrame

DeviceNext == New \/ SetBrightness \/ Draw \/ Clear \/ DrawSprite \/ Plot \/ AnimateSequence

SpecDevice == Init /\ [][DeviceNext]_vars

(***************************************************************************)
(* irandom on its own, over the arguments the program calls it with        *)
(***************************************************************************)
\* <<start, max>> of the calls of irandom in the program
IrandomCalls == {<<0, 4>>, <<1, 4>>, <<0, 8>>, <<200, 1500>>, <<1, 15>>, <<7, 14>>, <<1, 8>>}
\* raw numbers of either generator
IrandomRaws == {0, 1, 2, 3, 5, 6, 7, 8, 13, 14, 1299, 1499, 1500, 65535, 2147483647}

InitRandom ==
    /\ Start
    /\ \E call \in IrandomCalls : rStart = call[1] /\ rMax = call[2]
    /\ rValue \in IrandomRaws
    /\ rErr \in BOOLEAN
    /\ rResult = -1
    /\ NoReading
    /\ NoShot010

CallIrandom ==
    /\ rResult = -1
    /\ rResult' = irandom(rStart, rMax, rValue, rErr)
    /\ UNCHANGED <<pc, worldVars, playerVars, decoderVars, batSqueaked, batCue, rollVars, pinVars,
                   now, pollVars, shownText, ticks, rounds, rStart, rMax, rValue, rErr,
                   readingVars, bootVars, driverVars, arrowVars>>

RandomNext == CallIrandom

SpecRandom == InitRandom /\ [][RandomNext]_vars

(***************************************************************************)
(* getDirection on its own, over readings on and around both limits        *)
(***************************************************************************)
\* raw readings of one axis: the ends of the uint16 range, the centre, and
\* each limit with its two neighbours
ReadingValues == {0, LOWER_LIMIT - 1, LOWER_LIMIT, LOWER_LIMIT + 1, 30000,
                  UPPER_LIMIT - 1, UPPER_LIMIT, UPPER_LIMIT + 1, 65535}

InitDecoder ==
    /\ Start
    /\ rStart = 0
    /\ rMax = 1
    /\ rValue = 0
    /\ rErr = FALSE
    /\ rResult = -1
    /\ rawX \in ReadingValues
    /\ rawY \in ReadingValues
    /\ decoded = -1
    /\ NoShot010

CallGetDirection ==
    /\ decoded = -1
    /\ decoded' = getDirection(rawX, rawY)
    /\ UNCHANGED <<pc, worldVars, playerVars, decoderVars, batSqueaked, batCue, rollVars, pinVars,
                   now, pollVars, shownText, ticks, rounds, randVars, rawX, rawY,
                   bootVars, driverVars, arrowVars>>

DecoderNext == CallGetDirection

SpecDecoder == InitDecoder /\ [][DecoderNext]_vars

(***************************************************************************)
(* the arrow of revision 0.1.0 (src/wumpus/main.go) on its own             *)
(***************************************************************************)
\* the square next to (x, y) in direction d, by the numbering of the move
\* code of revision 0.1.0: 0 up (y + 1), 3 right (x + 1), 2 down (y - 1),
\* any other value left (x - 1)
movedSquare010(x, y, d) ==
    IF d = 0 THEN <<x, y + 1>>
    ELSE IF d = 3 THEN <<x + 1, y>>
    ELSE IF d = 2 THEN <<x, y - 1>>
    ELSE <<x - 1, y>>

\* the square the arrow code of revision 0.1.0 tests for the Wumpus, or
\* <<-1, -1>> where it tests none: the chain starts with
\* `if !PIN_BUTTON.Get()` where the other branches test lastMoveDirection
arrowSquare010(x, y, d, button) ==
    IF ~button
    THEN (IF y < 7 THEN <<x, y + 1>> ELSE <<-1, -1>>)
    ELSE IF d = 3
    THEN (IF x < 7 THEN <<x + 1, y>> ELSE <<-1, -1>>)
    ELSE IF d = 2
    THEN (IF y > 0 THEN <<x, y - 1>> ELSE <<-1, -1>>)
    ELSE (IF x > 0 THEN <<x - 1, y>> ELSE <<-1, -1>>)

\* the squares the arrow is fired from in the model
ArrowCells == {0, 3, 7}

InitArrow010 ==
    /\ Start
    /\ rStart = 0
    /\ rMax = 1
    /\ rValue = 0
    /\ rErr = FALSE
    /\ rResult = -1
    /\ NoReading
    /\ player_x \in ArrowCells
    /\ player_y \in ArrowCells
    /\ lastMoveDirection010 \in 0 .. 3
    /\ buttonAfter \in BOOLEAN
    /\ arrowTarget = <<>>

\* the arrow code after fireArrowAnimation()
ResolveArrow010 ==
    /\ arrowTarget = <<>>
    /\ arrowTarget' = arrowSquare010(player_x, player_y, lastMoveDirection010, buttonAfter)
    /\ UNCHANGED <<pc, worldVars, playerVars, decoderVars, batSqueaked, batCue, rollVars, pinVars,
                   now, pollVars, shownText, ticks, rounds, randVars, readingVars, bootVars,
                   driverVars, player_x, player_y, lastMoveDirection010, buttonAfter>>

ArrowNext010 == ResolveArrow010

SpecArrow010 == InitArrow010 /\ [][ArrowNext010]_vars

(***************************************************************************)
(* Properties                                                              *)
(***************************************************************************)
Squares == Cells \X Cells

HazardCount(kind) == Cardinality({sq \in Squares : hazards[sq[1]][sq[2]] = kind})

\* C1: when createWorld has completed the board holds exactly one Wumpus,
\* between 1 and 3 pits and between 1 and 3 bats, and the player's start
\* square is Empty.
WorldCounts ==
    pc = "ready" =>
        /\ HazardCount(WUMPUS) = 1
        /\ HazardCount(PIT) \in 1 .. 3
        /\ HazardCount(BAT) \in 1 .. 3
        /\ hazards[playerX][playerY] = EMPTY

\* C2: irandom(start, max) returns r with start <= r < max, for every raw
\* number and on both the hardware path and the math/rand path.
IrandomInRange ==
    rResult # -1 => (rStart <= rResult /\ rResult < rMax)

\* (a, b) and (c, d) are one step apart along one axis
Adjacent(a, b, c, d) ==
    \/ (a = c /\ (b - d = 1 \/ d - b = 1))
    \/ (b = d /\ (a - c = 1 \/ c - a = 1))

NearKind(a, b, kind) ==
    \E sq \in Squares : hazards[sq[1]][sq[2]] = kind /\ Adjacent(a, b, sq[1], sq[2])

\* C3: in every generated world a square is marked in stinkLayer exactly
\* when it is orthogonally adjacent (no diagonals, no wraparound) to a
\* Wumpus square, in draughtLayer exactly when adjacent to a Pit and in
\* soundLayer exactly when adjacent to a Bat.
SenseLayersMatch ==
    pc \in {"ready", "loop"} =>
        \A sq \in Squares :
            /\ stinkLayer[sq[1]][sq[2]] <=> NearKind(sq[1], sq[2], WUMPUS)
            /\ draughtLayer[sq[1]][sq[2]] <=> NearKind(sq[1], sq[2], PIT)
            /\ soundLayer[sq[1]][sq[2]] <=> NearKind(sq[1], sq[2], BAT)

\* a generated world with the Wumpus on the right edge and a bat on the
\* top edge: their layers are marked beside them and not across the board
SenseLayersMatchWitness ==
    /\ pc = "ready"
    /\ \E b \in Cells : hazards[7][b] = WUMPUS /\ stinkLayer[6][b] /\ ~stinkLayer[0][b]
    /\ \E a \in Cells : hazards[a][7] = BAT /\ soundLayer[a][6] /\ ~soundLayer[a][0]

\* C4: a square drawn in rollHazards is accepted (the hazard is placed)
\* exactly when it is Empty and is not the player's start square; any other
\* draw is rejected and drawn again.
DrawAcceptance ==
    [][pc = "rollHazards" =>
        ((hazards' # hazards) <=>
            (/\ hazards[hazard_x'][hazard_y'] = EMPTY
             /\ ~(hazard_x' = playerX /\ hazard_y' = playerY)))]_vars

\* the move in direction d from (x, y) would leave the board
BeyondEdge(d, x, y) ==
    \/ (d = UP /\ y = 7)
    \/ (d = DOWN /\ y = 0)
    \/ (d = LEFT /\ x = 0)
    \/ (d = RIGHT /\ x = 7)

\* C5: a Move whose direction would take the player off the board leaves
\* the player's square and lastMoveDirection unchanged.
WallBumpNoOp ==
    [][(pc = "loop" /\ BeyondEdge(direction', playerX, playerY)) =>
        (playerX' = playerX /\ playerY' = playerY
         /\ lastMoveDirection' = lastMoveDirection)]_vars

\* the last poll was a Move up against the top edge: the player still
\* stands on row 7 and still faces Down, as at the spawn
WallBumpNoOpWitness ==
    /\ pc = "loop"
    /\ direction = UP
    /\ playerY = 7
    /\ lastMoveDirection = DOWN
    /\ visited[playerX][playerY]

\* C6: a run of consecutive off-centre readings gives exactly one Move, at
\* the first poll of the run; the next Move needs a reading inside the
\* dead-zone and then an off-centre one.
EdgeTriggered ==
    [][pc = "loop" =>
        ((direction' # NONE) <=> (offCentre' /\ ~offCentre))]_vars

\* the stick was off-centre at the last poll and no Move came of it
EdgeTriggeredWitness ==
    /\ pc = "loop"
    /\ ticks >= 2
    /\ offCentre
    /\ direction = NONE
    /\ visited[0][0]

\* C7: a press shorter than the debounce time gives no Fire, a press of at
\* least that time gives exactly one: Fire comes at a poll at which the
\* press has already lasted DEBOUNCE_TIME_MS, and once per press.
OneFirePerHeldPress ==
    /\ [][fired' => (pressedAt # -1 /\ now - pressedAt >= DEBOUNCE_TIME_MS)]_vars
    /\ [](firesInPress <= 1)

\* C8: Fire is emitted only if the button read pressed at every poll since
\* the decoder was armed and at least DEBOUNCE_TIME_MS have passed since.
FireNeedsUnbrokenPress ==
    [][fired' =>
        (/\ debounceButtonFlag
         /\ heldSinceArm
         /\ now - debounceButtonCount >= DEBOUNCE_TIME_MS)]_vars

\* the square one step from the player in the facing direction
Target ==
    IF lastMoveDirection = UP THEN <<playerX, playerY + 1>>
    ELSE IF lastMoveDirection = DOWN THEN <<playerX, playerY - 1>>
    ELSE IF lastMoveDirection = LEFT THEN <<playerX - 1, playerY>>
    ELSE <<playerX + 1, playerY>>

TargetHolds(kinds) ==
    /\ Target \in Squares
    /\ hazards[Target[1]][Target[2]] \in kinds

\* C9: a Fire with the Wumpus on the target square ends the round as won:
\* the win text is shown and isInPlay is false.
WumpusShotWins ==
    (fired /\ TargetHolds({WUMPUS})) => (shownText = textWin /\ ~isInPlay)

WumpusShotWinsWitness ==
    /\ fired
    /\ TargetHolds({WUMPUS})
    /\ shownText = textWin
    /\ pc = "createWorld"

\* C10: a Fire with the target square on the board and no Wumpus on it is
\* an immediate loss: the Wumpus-killed-you text is shown in that tick.
MissLoses ==
    (fired /\ TargetHolds({EMPTY, PIT, BAT})) => (shownText = textLose /\ ~isInPlay)

MissLosesWitness ==
    /\ fired
    /\ TargetHolds({PIT, BAT})
    /\ shownText = textLose
    /\ pc = "createWorld"

\* C11: a Fire whose target square lies outside the board sets no outcome,
\* leaves the player's square, the facing and the visited grid unchanged,
\* and the round stays in play.
WastedShot ==
    [][(pc = "loop" /\ fired' /\ Target \notin Squares) =>
        (/\ shownText' = noText
         /\ isInPlay'
         /\ pc' = "loop"
         /\ playerX' = playerX
         /\ playerY' = playerY
         /\ lastMoveDirection' = lastMoveDirection
         /\ visited' = visited)]_vars

\* the last poll fired over the edge of the board and the round goes on
WastedShotWitness ==
    /\ fired
    /\ Target \notin Squares
    /\ pc = "loop"
    /\ isInPlay
    /\ shownText = noText

\* C12: a move that puts the player on a Pit square ends the round with
\* the fell-to-your-death text, a move that puts the player on the Wumpus
\* square ends it with the Wumpus-killed-you text; in both cases isInPlay
\* is false and gameLoop has exited in that tick.
HazardDeaths ==
    /\ (direction # NONE /\ hazards[playerX][playerY] = PIT) =>
           (shownText = textFell /\ ~isInPlay /\ pc = "createWorld")
    /\ (direction # NONE /\ hazards[playerX][playerY] = WUMPUS) =>
           (shownText = textLose /\ ~isInPlay /\ pc = "createWorld")

\* the last poll moved the player into a pit and the round is over
HazardDeathsWitness ==
    /\ direction # NONE
    /\ hazards[playerX][playerY] = PIT
    /\ shownText = textFell
    /\ ~isInPlay
    /\ pc = "createWorld"

\* the square one step from (x, y) in direction d
StepFrom(d, x, y) ==
    IF d = UP THEN <<x, y + 1>>
    ELSE IF d = DOWN THEN <<x, y - 1>>
    ELSE IF d = LEFT THEN <<x - 1, y>>
    ELSE <<x + 1, y>>

\* C13: a move that puts the player on a Bat square leaves the round in
\* play with no outcome; the player ends that tick on an Empty square, which
\* is not the Bat square just entered, and the square the player moved from
\* is marked visited.
BatCarries ==
    [][(/\ pc = "loop"
        /\ direction' # NONE
        /\ StepFrom(direction', playerX, playerY) \in Squares
        /\ hazards[StepFrom(direction', playerX, playerY)[1]]
                   [StepFrom(direction', playerX, playerY)[2]] = BAT) =>
        (/\ isInPlay'
         /\ shownText' = noText
         /\ pc' = "loop"
         /\ hazards'[playerX'][playerY'] = EMPTY
         /\ <<playerX', playerY'>> # StepFrom(direction', playerX, playerY)
         /\ visited'[playerX][playerY])]_vars

\* three polls into a round begun on (0, 0) the player stands on (2, 2),
\* too far to have walked: the second move entered the bat's square (1, 1)
BatCarriesWitness ==
    /\ pc = "loop"
    /\ ticks = 3
    /\ rounds = 1
    /\ direction # NONE
    /\ hazards[1][1] = BAT
    /\ visited[0][0]
    /\ visited[1][0] \/ visited[0][1]
    /\ playerX = 2
    /\ playerY = 2
    /\ hazards[2][2] = EMPTY
    /\ isInPlay
    /\ shownText = noText

\* C14: lastMoveDirection is the direction of the latest Move that changed
\* the player's square, or the spawn facing if there has been none: a Move
\* that is not blocked by an edge sets it (a bat's drop after the Move does
\* not alter it), a blocked Move, a poll without a Move and every step other
\* than the choice of the start corner leave it alone; and every Fire is
\* resolved against the square one step from the player in that direction.
FacingFollowsMoves ==
    [][/\ (pc = "loop" /\ direction' # NONE /\ ~BeyondEdge(direction', playerX, playerY)) =>
             lastMoveDirection' = direction'
       /\ (pc = "loop" /\ (direction' = NONE \/ BeyondEdge(direction', playerX, playerY))) =>
             lastMoveDirection' = lastMoveDirection
       /\ (pc \notin {"loop", "createWorld"}) =>
             lastMoveDirection' = lastMoveDirection
       /\ (pc = "loop" /\ fired') =>
             shownText' = IF Target \notin Squares THEN noText
                          ELSE IF hazards[Target[1]][Target[2]] = WUMPUS THEN textWin
                          ELSE textLose]_vars

\* carried by the bat of (1, 1) to (2, 2) after a Move up from (1, 0), the
\* player still faces Up and the Fire of the next poll went to (2, 3)
FacingFollowsMovesWitness ==
    /\ fired
    /\ ticks = 4
    /\ rounds = 1
    /\ hazards[1][1] = BAT
    /\ visited[1][0]
    /\ playerX = 2
    /\ playerY = 2
    /\ lastMoveDirection = UP
    /\ hazards[2][3] = EMPTY
    /\ shownText = textLose

Corners == {<<0, 0>>, <<0, 7>>, <<7, 7>>, <<7, 0>>}

VisitedMonotonic ==
    [][/\ pc # "createWorld" =>
             \A sq \in Squares : visited[sq[1]][sq[2]] => visited'[sq[1]][sq[2]]
       /\ pc = "createWorld" => visited' = AllCells(FALSE)]_vars

\* the player has left (0, 0) and (1, 0) behind, both still marked, and the
\* last poll was a shot
VisitedMonotonicWitness ==
    /\ pc = "loop"
    /\ fired
    /\ visited[0][0]
    /\ visited[1][0]
    /\ ticks >= 4

\* C17: no iteration of the polling loop of gameLoop (move, hazard
\* resolution, bat drop, shot) changes the hazards grid or the stink,
\* draught or sound layer.
BoardFixedInRound ==
    [][pc = "loop" =>
        (/\ hazards' = hazards
         /\ stinkLayer' = stinkLayer
         /\ draughtLayer' = draughtLayer
         /\ soundLayer' = soundLayer)]_vars

\* the bat of (1, 1) has dropped the player on another square and sits
\* where it sat, with its sound around it
BoardFixedInRoundWitness ==
    /\ pc = "loop"
    /\ ticks >= 3
    /\ visited[1][0]
    /\ ~visited[1][1]
    /\ playerY = 2
    /\ hazards[playerX][playerY] = EMPTY
    /\ hazards[1][1] = BAT
    /\ HazardCount(BAT) = 1
    /\ soundLayer[1][0]
    /\ soundLayer[1][2]

\* C18: the sense layers are a function of the hazards grid alone: the
\* sense scan run again on the unchanged hazards of a generated world, be
\* it from cleared layers or from the layers already derived, gives layers
\* identical to the ones derived first.
SenseScanIdempotent ==
    pc \in {"ready", "loop"} =>
        /\ SenseScan(AllCells(FALSE), WUMPUS, hazards) = stinkLayer
        /\ SenseScan(AllCells(FALSE), PIT, hazards) = draughtLayer
        /\ SenseScan(AllCells(FALSE), BAT, hazards) = soundLayer
        /\ SenseScan(stinkLayer, WUMPUS, hazards) = stinkLayer
        /\ SenseScan(draughtLayer, PIT, hazards) = draughtLayer
        /\ SenseScan(soundLayer, BAT, hazards) = soundLayer

\* a generated world with four bats, two pits or more, and a square that
\* both stinks and is draughty
SenseScanIdempotentWitness ==
    /\ pc = "ready"
    /\ HazardCount(BAT) = 4
    /\ HazardCount(PIT) >= 2
    /\ \E sq \in Squares : stinkLayer[sq[1]][sq[2]] /\ draughtLayer[sq[1]][sq[2]]

\* a reading outside [LOWER_LIMIT, UPPER_LIMIT]
Live(v) == v < LOWER_LIMIT \/ v > UPPER_LIMIT

\* C19: for every pair of readings with at least one axis outside
\* [LOWER_LIMIT, UPPER_LIMIT], getDirection returns Right when only X is
\* live and below the lower limit, Left when only X is live and above the
\* upper limit, Down when only Y is live and below, Up when only Y is live
\* and above, and with both axes live the horizontal direction that X
\* gives, never Up or Down.
DecodeDirection ==
    decoded # -1 =>
        /\ (Live(rawX) /\ ~Live(rawY) /\ rawX < LOWER_LIMIT) => decoded = RIGHT
        /\ (Live(rawX) /\ ~Live(rawY) /\ rawX > UPPER_LIMIT) => decoded = LEFT
        /\ (~Live(rawX) /\ Live(rawY) /\ rawY < LOWER_LIMIT) => decoded = DOWN
        /\ (~Live(rawX) /\ Live(rawY) /\ rawY > UPPER_LIMIT) => decoded = UP
        /\ (Live(rawX) /\ Live(rawY)) =>
               decoded = IF rawX < LOWER_LIMIT THEN RIGHT ELSE LEFT

\* X exactly on the lower limit is not live, Y is far below it: the
\* reading was decoded as Down
DecodeDirectionWitness ==
    /\ rawX = LOWER_LIMIT
    /\ rawY = 0
    /\ decoded = DOWN

\* C20: in every reachable state the player stands on the board:
\* 0 <= playerX <= 7 and 0 <= playerY <= 7, after any sequence of moves,
\* bat drops and shots.
PlayerOnBoard ==
    /\ playerX \in 0 .. 7
    /\ playerY \in 0 .. 7

\* the last poll was a Move down on the bottom row: the coordinate has not
\* gone below 0
PlayerOnBoardWitness ==
    /\ pc = "loop"
    /\ direction = DOWN
    /\ playerY = 0
    /\ visited[playerX][0]

\* C21: at the end of every poll that leaves the round in play, and when
\* the round starts, PIN_GREEN shows stinkLayer and PIN_RED draughtLayer at
\* the square the player stands on, a bat's drop square included.
PinsShowSenses ==
    pc = "loop" =>
        /\ pinGreen = stinkLayer[playerX][playerY]
        /\ pinRed = draughtLayer[playerX][playerY]

\* dropped by the bat of (1, 1) on (2, 2), between the pit and the Wumpus,
\* both pins are high
PinsShowSensesWitness ==
    /\ pc = "loop"
    /\ ticks = 3
    /\ visited[1][0] \/ visited[0][1]
    /\ hazards[1][1] = BAT
    /\ playerX = 2
    /\ playerY = 2
    /\ pinGreen
    /\ pinRed
    /\ stinkLayer[2][2]
    /\ draughtLayer[2][2]

\* C22: when a round has ended with any outcome both pins are low by the
\* time the outcome text is shown, and they stay low until the world of
\* the next round has been generated.
PinsLowAfterRound ==
    /\ shownText # noText => (~pinGreen /\ ~pinRed)
    /\ pc \in {"createWorld", "batCount", "pitCount", "rollHazards", "ready"} =>
          (~pinGreen /\ ~pinRed)

\* the round has just been won from a square beside the Wumpus, where
\* PIN_GREEN was high: both pins are low with the win text shown
PinsLowAfterRoundWitness ==
    /\ pc = "createWorld"
    /\ shownText = textWin
    /\ stinkLayer[playerX][playerY]
    /\ ~pinGreen
    /\ ~pinRed

\* the poll now taken changes the player's square
Stepped == pc = "loop" /\ direction' # NONE /\ ~BeyondEdge(direction', playerX, playerY)

\* C23: the bat's tones are played only in a poll in which the player
\* arrives on a square (so at most once between two changes of square,
\* however many polls and blocked moves come between), and they are played
\* in the poll of arrival, if that poll is rendered, exactly when the sound
\* layer is true on the square the player then stands on.
BatCueOncePerSquare ==
    [][/\ batCue' => Stepped
       /\ (Stepped /\ pc' = "loop") => (batCue' <=> soundLayer[playerX'][playerY'])]_vars

\* on (1, 0) below the bat of (1, 1) the tones were played on arrival; the
\* last poll, a Move down against the bottom edge, played nothing
BatCueOncePerSquareWitness ==
    /\ pc = "loop"
    /\ playerX = 1
    /\ playerY = 0
    /\ direction = DOWN
    /\ soundLayer[1][0]
    /\ batSqueaked
    /\ ~batCue

\* hazards on the board
HazardsPlaced == HazardCount(BAT) + HazardCount(PIT) + HazardCount(WUMPUS)

\* C24: the rejection loops can always exit: never more than 7 hazards are
\* placed, at every draw of rollHazards some square is acceptable, and in
\* every poll some square is Empty for a bat's drop.
RejectionLoopsExit ==
    /\ pc # "createWorld" => HazardsPlaced <= 7
    /\ (pc = "rollHazards" /\ i < count) =>
          \E sq \in Squares : Acceptable(hazards, sq[1], sq[2], playerX, playerY)
    /\ pc = "loop" => \E sq \in Squares : hazards[sq[1]][sq[2]] = EMPTY

\* C25: if setup() returns false the program is in failLoop from then on:
\* it never leaves it, no world is generated and no round is run.
SetupFailureIsFinal ==
    setupFailed =>
        /\ pc = "failLoop"
        /\ rounds = 0
        /\ hazards = AllCells(NUL)
        /\ ~isInPlay

\* setup() has failed and failLoop has switched the LED on
SetupFailureIsFinalWitness ==
    /\ setupFailed
    /\ pc = "failLoop"
    /\ led

\* the smaller of two numbers
Min(a, b) == IF a < b THEN a ELSE b

\* C26: SetBrightness(b) stores min(b, 15) as the driver's brightness and
\* writes the one command byte 0xE0 | min(b, 15), for every b; the stored
\* level is never above 15 and no byte written is beyond 0xEF.
BrightnessClamped ==
    /\ brightness \in 0 .. 15
    /\ op[1] = "SetBrightness" =>
          /\ brightness = Min(op[2], 15)
          /\ cmds = <<HT16K33_CMD_BRIGHTNESS + Min(op[2], 15)>>
          /\ cmds[1] \in 224 .. 239

\* gameWon has asked for level 20, which irandom(7, 14) gives on the raw
\* number 13: level 15 was stored and 0xEF written
BrightnessClampedWitness ==
    /\ op = <<"SetBrightness", 20>>
    /\ brightness = 15
    /\ cmds = <<239>>

\* C27: DrawSprite writes the sprite into the frame buffer and sends
\* nothing to the display: no I2C write happens until Draw() is called.
DrawSpriteBufferOnly ==
    op[1] = "DrawSprite" =>
        /\ buffer = op[2]
        /\ shown = <<>>
        /\ cmds = <<>>

\* C28: Plot(x, y, isSet) with x and y in 0..7 makes bit y of column x of
\* the frame buffer equal to isSet, leaves every other bit of every column
\* as it was, and writes nothing to I2C.
PlotOneBit ==
    [][op'[1] = "Plot" =>
        /\ \A col \in Cells, k \in 0 .. 7 :
              Bit(buffer'[col], k) =
                  IF col = op'[2] /\ k = op'[3]
                  THEN (IF op'[4] THEN 1 ELSE 0)
                  ELSE Bit(buffer[col], k)
        /\ \A col \in Cells : buffer'[col] \in 0 .. 255
        /\ shown' = <<>>
        /\ cmds' = <<>>]_vars

\* the lowest pixel of column 0 of the frame sprite has been cleared
PlotOneBitWitness ==
    /\ op = <<"Plot", 0, 0, FALSE>>
    /\ buffer[0] = 254
    /\ buffer[7] = 255
    /\ buffer[3] = 129
    /\ shown = <<>>

\* C29: AnimateSequence(sequence, frameCount, period) displays exactly
\* frameCount frames in order, frame k being bytes 8k .. 8k+7 of the
\* sequence, for every frameCount >= 0 and every sequence of at least
\* 8 * frameCount bytes.
AnimateShowsFrameCount ==
    (op[1] = "AnimateSequence" /\ Len(op[2]) >= 8 * op[3]) =>
        /\ ~panicked
        /\ Len(shown) = op[3]
        /\ \A k \in 0 .. (op[3] - 1) :
              shown[k + 1] = DrawBlock([col \in Cells |-> op[2][(8 * k) + col + 1]])

\* C30: on readings for which checkJoystick returns true, getDirection
\* returns Up, Down, Left or Right and never NONE, readings with one axis
\* exactly on LOWER_LIMIT or UPPER_LIMIT included.
ValidReadingHasDirection ==
    (decoded # -1 /\ checkJoystick(rawX, rawY, isJoystickCentred).ret) =>
        decoded \in {UP, DOWN, LEFT, RIGHT}

\* X exactly on the upper limit, Y far above it: checkJoystick accepts the
\* reading and it was decoded as Up
ValidReadingHasDirectionWitness ==
    /\ rawX = UPPER_LIMIT
    /\ rawY = 65535
    /\ checkJoystick(rawX, rawY, isJoystickCentred).ret
    /\ decoded = UP


\* C31: one iteration of the polling loop applies at most one input event:
\* an iteration that takes a joystick reading as a move leaves the button's
\* debounce flag and timer as they were and fires no arrow, and an iteration
\* that fires an arrow decodes no direction and leaves the player's square
\* and facing as they were
OneEventPerTick ==
    [][pc = "loop" =>
        /\ direction' # NONE =>
              /\ ~fired'
              /\ debounceButtonFlag' = debounceButtonFlag
              /\ debounceButtonCount' = debounceButtonCount
        /\ fired' =>
              /\ direction' = NONE
              /\ playerX' = playerX /\ playerY' = playerY
              /\ lastMoveDirection' = lastMoveDirection]_vars

\* a move was applied while the button was armed, and the round goes on
OneEventPerTickWitness ==
    /\ pc = "loop" /\ ticks >= 2
    /\ direction # NONE /\ ~fired
    /\ debounceButtonFlag


\* C32: the fire button is acted on only in iterations whose joystick reading
\* is inside the dead-zone: an iteration whose reading is off-centre neither
\* arms the debounce flag nor fires an arrow
FireOnlyInDeadZone ==
    [][pc = "loop" /\ offCentre' =>
        /\ ~fired'
        /\ debounceButtonFlag' = debounceButtonFlag
        /\ debounceButtonCount' = debounceButtonCount]_vars


\* an arrow was fired in an iteration whose joystick reading was off-centre
FiredWhileDeflected == fired /\ offCentre


\* C33: the end of a round is final: once gameOver has shown a round's
\* outcome, the only step that changes anything is the next world
\* generation; until then no iteration of the polling loop runs (no move, no
\* shot) and the player's square, facing and the visited squares stay as the
\* deciding iteration left them
OverIsTerminal ==
    [][shownText # noText =>
        \/ rounds' = rounds + 1 /\ pc' = "batCount"
        \/ /\ ticks' = ticks
           /\ UNCHANGED <<playerX, playerY, lastMoveDirection, visited, direction, fired>>]_vars

\* a round of several iterations has just been decided
OverIsTerminalWitness ==
    /\ shownText # noText /\ ~isInPlay
    /\ pc = "createWorld"
    /\ ticks >= 2 /\ rounds = 1


\* what createWorld and the head of gameLoop do re-initialise: the player is
\* on a corner, no square is visited, the button's debounce flag is clear and
\* the bat has not squeaked
RoundStartResets ==
    [][pc = "ready" /\ pc' = "loop" =>
        /\ <<playerX', playerY'>> \in Corners
        /\ \A sq \in Squares : ~visited'[sq[1]][sq[2]]
        /\ isInPlay' /\ ~debounceButtonFlag' /\ ~batSqueaked']_vars

\* C34: a new round starts from scratch: when the polling loop is entered
\* the player is on a corner, no square is visited, and the input latches
\* are as at power-up: the joystick latch says centred and the button's
\* debounce flag is clear
RoundStartsFresh ==
    [][pc = "ready" /\ pc' = "loop" =>
        /\ <<playerX', playerY'>> \in Corners
        /\ \A sq \in Squares : ~visited'[sq[1]][sq[2]]
        /\ isInPlay' /\ ~debounceButtonFlag' /\ ~batSqueaked'
        /\ isJoystickCentred']_vars


\* C35: every I2C transmission of a driver value goes to the address the
\* value was made with: New's address argument when it is in 8 .. 0xF0,
\* the default 0x70 otherwise
TransmitsToOwnAddress ==
    /\ op[1] = "New" => address = (IF op[2] \in 8 .. 240 THEN op[2] ELSE HT16K33_ADDRESS)
    /\ txAddress # -1 => txAddress = address

\* what does hold: New keeps an address in 8 .. 0xF0 and replaces any other
\* by 0x70, and every transmission goes to 0x70
NewKeepsValidAddress ==
    /\ op[1] = "New" => address = (IF op[2] \in 8 .. 240 THEN op[2] ELSE HT16K33_ADDRESS)
    /\ txAddress \in {-1, HT16K33_ADDRESS}


\* no move has succeeded yet in the round: no square other than the
\* player's own has been left
NoMoveYet == \A sq \in Squares : visited[sq[1]][sq[2]] => sq = <<playerX, playerY>>

\* C36: in a generated world no hazard lies in the row or the column of the
\* start square, so no sense layer is set on the start square, and until the
\* first move succeeds both pins are low and no bat cue plays
StartCellQuiet ==
    pc \in {"ready", "loop"} /\ NoMoveYet =>
        /\ \A sq \in Squares :
              (sq[1] = playerX \/ sq[2] = playerY) => hazards[sq[1]][sq[2]] = EMPTY
        /\ ~stinkLayer[playerX][playerY]
        /\ ~draughtLayer[playerX][playerY]
        /\ ~soundLayer[playerX][playerY]
        /\ ~pinGreen /\ ~pinRed /\ ~batCue

\* the player has bumped into a wall on the start square, with a hazard on
\* the square diagonally next to it
StartCellQuietWitness ==
    /\ pc = "loop" /\ NoMoveYet
    /\ visited[playerX][playerY]
    /\ direction # NONE
    /\ hazards[1][1] # EMPTY


\* C37: an arrow fired before any move has succeeded never wins: the square
\* it is aimed at is on the board and does not hold the Wumpus, and the
\* round ends with the Wumpus getting the player
FirstShotLoses ==
    fired /\ NoMoveYet =>
        /\ ~BeyondEdge(lastMoveDirection, playerX, playerY)
        /\ hazards[Target[1]][Target[2]] # WUMPUS
        /\ shownText = textLose
        /\ ~isInPlay /\ pc = "createWorld"

\* the arrow was fired from the start square, with the Wumpus on the square
\* diagonally next to it
FirstShotLosesWitness ==
    /\ fired /\ NoMoveYet
    /\ hazards[1][1] = WUMPUS
    /\ shownText = textLose


\* C38: at the start of every iteration of the polling loop the player
\* stands on an Empty square, and every square marked visited is Empty:
\* no square holding a bat, a pit or the Wumpus is ever marked
OnlyEmptyVisited ==
    /\ pc = "loop" => hazards[playerX][playerY] = EMPTY
    /\ \A sq \in Squares : visited[sq[1]][sq[2]] => hazards[sq[1]][sq[2]] = EMPTY

\* the player has left two squares behind and the round goes on
OnlyEmptyVisitedWitness ==
    /\ pc = "loop"
    /\ Cardinality({sq \in Squares : visited[sq[1]][sq[2]]}) >= 2
    /\ ~visited[playerX][playerY]


\* C39: a round has exactly one outcome: gameOver is called at most once
\* between one createWorld and the next, the polling loop is left in the
\* very iteration that calls it (no iteration starts with a call made), and
\* whenever gameLoop has returned it has been called once
OneOutcomePerRound ==
    /\ gameOverCalls \in {0, 1}
    /\ pc = "loop" => gameOverCalls = 0 /\ isInPlay
    /\ pc = "createWorld" /\ rounds > 0 =>
          gameOverCalls = 1 /\ shownText # noText /\ ~isInPlay

\* the second round has ended with a fall into a pit
OneOutcomePerRoundWitness ==
    /\ pc = "createWorld" /\ rounds = 2
    /\ gameOverCalls = 1
    /\ shownText = textFell


\* C40: in revision 0.1.0 a fired arrow is resolved against the square next
\* to the player in lastMoveDirection (where that square is on the board),
\* for each of the four directions and whatever the button reads after the
\* firing animation
ArrowFollowsFacing010 ==
    LET next == movedSquare010(player_x, player_y, lastMoveDirection010) IN
    (arrowTarget # <<>> /\ next \in Squares) => arrowTarget = next

\* what revision 0.1.0 does: with the button released after the animation
\* the arrow goes up whatever lastMoveDirection is, and with the button
\* still pressed lastMoveDirection 0 (up) sends it left
ArrowFollowsButton010 ==
    arrowTarget # <<>> =>
        arrowTarget \in
            {<<-1, -1>>,
             movedSquare010(player_x, player_y,
                 IF ~buttonAfter THEN 0
                 ELSE IF lastMoveDirection010 = 0 THEN 1 ELSE lastMoveDirection010)}

====
